---------------------------- MODULE Spec2Model ----------------------------
(***************************************************************************)
(* A model of the HTML tag collector (html_tag_collector/collector.py):    *)
(* the concurrent fetch engine with its retry policy, the response filter, *)
(* the render stage, the feature extractor, the batch worker, the batch    *)
(* orchestrator and the result merger; and of the cursor of the Common     *)
(* Crawl search (common_crawler/crawler.py).                               *)
(*                                                                         *)
(* Python values are tagged records, so that None, strings, responses and  *)
(* exceptions can be compared with one another.  A string is the sequence  *)
(* of its characters; a content type is the sequence of the pieces the     *)
(* substring tests of the code can tell apart.                             *)
(***************************************************************************)
EXTENDS Integers, Sequences, FiniteSets, TLC

VARIABLES
    \* ---- the batch worker (process_urls and the coroutines it runs)
    urls,               \* the "url" column of the batch's dataframe
    render_javascript,  \* the flag passed to process_urls
    pc,                 \* position of process_urls
    tasks,              \* one get_response task per url
    completed,          \* the positions of the tasks that ended, in the order they ended
    attempts,           \* history: what each GET of each task did (when recorded)
    urls_and_responses, \* the list built after the gather
    cursor,             \* loop position of render_js
    urls_and_headers,   \* the records parse_response returned so far
    manager_list,       \* manager_list[0]: the slot shared with collector_main
    \* ---- the response filter applied to arbitrary arguments
    fResponse, fContentType, fStage, fFirst, fSecond,
    \* ---- the result merger (__main__)
    mDf, mCumulative, mStage, mOut,
    \* ---- render_js, poll by poll
    render_pc,          \* position of render_js within the item at the cursor
    render_task,        \* the task of res.html.arender() for that item
    time_elapsed,       \* the poll counter of the loop
    render_log,         \* history: what render_js did for each item it left
    \* ---- the batch orchestrator (process_in_batches, collector_main)
    bDf,                \* the input table
    batch_size,
    bI,                 \* the loop variable i
    bPc,                \* position of process_in_batches
    bProcs,             \* history: one record per batch started, with its process
    bManager,           \* manager_list of the collector_main call in progress
    cumulative_df,
    \* ---- get_div_text on texts given by the lengths of their words
    dDivs, dStage, dResult,
    \* ---- the crawler's cursor (CommonCrawlerManager)
    cCache,             \* cache.cache: last_page by (index, url, keyword)
    cCall,              \* history: the last operation and what it did
    cFound              \* history: (key, page) whose records a crawl returned since the cache was empty

workerVars == <<urls, render_javascript, pc, tasks, completed, attempts,
                urls_and_responses,
                cursor, urls_and_headers, manager_list>>
filterVars == <<fResponse, fContentType, fStage, fFirst, fSecond>>
mergeVars  == <<mDf, mCumulative, mStage, mOut>>
renderVars == <<render_pc, render_task, time_elapsed, render_log>>
batchVars  == <<bDf, batch_size, bI, bPc, bProcs, bManager, cumulative_df>>
divVars    == <<dDivs, dStage, dResult>>
crawlVars  == <<cCache, cCall, cFound>>
vars == <<workerVars, filterVars, mergeVars, renderVars, batchVars, divVars, crawlVars>>

\* The variables that a step of one component leaves alone
offWorker == <<filterVars, mergeVars, batchVars, divVars, crawlVars>>
offFilter == <<workerVars, renderVars, mergeVars, batchVars, divVars, crawlVars>>
offMerge  == <<workerVars, renderVars, filterVars, batchVars, divVars, crawlVars>>
offBatch  == <<workerVars, renderVars, filterVars, mergeVars, divVars, crawlVars>>
offDiv    == <<workerVars, renderVars, filterVars, mergeVars, batchVars, crawlVars>>
offCrawl  == <<workerVars, renderVars, filterVars, mergeVars, batchVars, divVars>>

-----------------------------------------------------------------------------
(* Bounds of the model *)

\* Largest batch the worker is run on.
MaxUrls == 2
\* Largest batch the worker is run on with the history of its GETs recorded.
MaxTracedUrls == 1
\* Largest input table the merger is run on.
MaxRows == 3
\* Largest batch render_js is followed on poll by poll.
MaxRenderUrls == 2
\* Largest input table and largest batch size of the batch orchestrator.
MaxBatchRows == 3
MaxBatchSize == 2
\* Most block containers of a page get_div_text is run on.
MaxDivs == 2
\* Largest page number the crawler reaches, and most pages of one crawl call.
MaxPage == 3
MaxNumPages == 2

-----------------------------------------------------------------------------
(* Python values *)

None == [t |-> "None"]
PyStr(chars) == [t |-> "str", v |-> chars]
Bytes(n, markup, page) == [t |-> "bytes", len |-> n, markup |-> markup, page |-> page]

\* The outcome of a call: a returned value or a raised exception.
Return(v) == [kind |-> "return", value |-> v]
Raised(e) == [kind |-> "raise", exc |-> e]

\* str.startswith
StartsWith(s, prefix) ==
    /\ Len(s) >= Len(prefix)
    /\ SubSeq(s, 1, Len(prefix)) = prefix

\* str.removesuffix
RemoveSuffix(s, suffix) ==
    IF Len(s) >= Len(suffix) /\ SubSeq(s, Len(s) - Len(suffix) + 1, Len(s)) = suffix
    THEN SubSeq(s, 1, Len(s) - Len(suffix))
    ELSE s

\* `piece in content_type`, at the granularity of the pieces of a content type
Contains(content_type, piece) ==
    \E k \in 1..Len(content_type.v) : content_type.v[k] = piece

-----------------------------------------------------------------------------
(* Responses *)

\* Response.ok: raise_for_status raises for the 4xx and 5xx codes only.
Ok(res) == ~(400 <= res.status_code /\ res.status_code < 600)

\* What session.get returns: an HTMLResponse with its body and headers.
HTMLResponse(code, content, headers) ==
    [t |-> "HTMLResponse", status_code |-> code, content |-> content,
     headers |-> headers, rendered |-> FALSE]

\* requests.Response() with only status_code assigned afterwards: no body
\* (content is None), no headers, no html attribute.
NewResponse(code) ==
    [t |-> "Response", status_code |-> code, content |-> None, headers |-> <<>>]

NoHeaders == <<>>
ContentTypeHeader(ct) == [h \in {"content-type"} |-> ct]

\* response.headers["content-type"] under `except (KeyError, AttributeError)`
HeaderContentType(response) ==
    IF response = None THEN None
    ELSE IF "content-type" \in DOMAIN response.headers
         THEN response.headers["content-type"]
         ELSE None

MaxBodyBytes == 10000000

filtered_types ==
    {"pdf", "excel", "msword", "image", "rtf", "zip", "octet", "csv", "json"}

\* response_valid: the condition is evaluated left to right; len() of a
\* body that is None raises TypeError, and reading status_code of a
\* response that is None raises AttributeError.
response_valid(response, content_type) ==
    IF response # None /\ response.content = None
    THEN Raised("TypeError")
    ELSE IF \/ response # None /\ response.content.len > MaxBodyBytes
            \/ content_type # None
               /\ \E ft \in filtered_types : Contains(content_type, ft)
            \/ response # None /\ ~Ok(response)
         THEN IF response = None
              THEN Raised("AttributeError")
              ELSE Return(NewResponse(response.status_code))
         ELSE Return(response)

-----------------------------------------------------------------------------
(* The response filter on arbitrary arguments *)

CT_html == PyStr(<<"text/", "html">>)
CT_xml  == PyStr(<<"application/", "xml">>)
CT_pdf  == PyStr(<<"application/", "pdf">>)
CT_xls  == PyStr(<<"application/vnd.ms-", "excel">>)

ContentTypes == {CT_html, CT_xml, CT_pdf, CT_xls}
StatusCodes == {200, 304, 404}
BodySizes == {100, MaxBodyBytes, MaxBodyBytes + 1}

FilterResponses ==
    {HTMLResponse(code, Bytes(n, "page", "p"), hs) :
        code \in StatusCodes, n \in BodySizes,
        hs \in {NoHeaders} \cup {ContentTypeHeader(ct) : ct \in {CT_html, CT_pdf}}}

Idle == "idle"

FilterIdle ==
    /\ fResponse = None /\ fContentType = None
    /\ fStage = Idle /\ fFirst = None /\ fSecond = None

FilterInit ==
    /\ fResponse \in FilterResponses \cup {None}
    /\ fContentType \in ContentTypes \cup {None}
    /\ fStage = "args"
    /\ fFirst = None
    /\ fSecond = None

\* response_valid(response, content_type, url)
ApplyFilter ==
    /\ fStage = "args"
    /\ fFirst' = response_valid(fResponse, fContentType)
    /\ fStage' = "once"
    /\ UNCHANGED <<fResponse, fContentType, fSecond, offFilter>>

\* The filter applied to what it returned, the content type being read
\* from the returned response as get_response reads it.
ApplyFilterAgain ==
    /\ fStage = "once"
    /\ fFirst.kind = "return"
    /\ fSecond' = response_valid(fFirst.value, HeaderContentType(fFirst.value))
    /\ fStage' = "twice"
    /\ UNCHANGED <<fResponse, fContentType, fFirst, offFilter>>

-----------------------------------------------------------------------------
(* The urls of a batch *)

\* "http://a/x/": an explicit http url with a path
U_http == PyStr(<<"h","t","t","p",":","/","/","a","/","x","/">>)
\* "c.json": no scheme, and the ".json" suffix of the upstream data
U_bare == PyStr(<<"c",".","j","s","o","n">>)

\* "https://b": an explicit https url
U_https == PyStr(<<"h","t","t","p","s",":","/","/","b">>)

\* The values of the url column: two urls and a null cell.
UrlValues == {U_http, U_bare, None}

\* process_urls, lines 59-64: new_urls
NewUrl(url) ==
    IF url # None /\ ~StartsWith(url.v, <<"h","t","t","p">>)
    THEN PyStr(<<"h","t","t","p","s",":","/","/">> \o url.v)
    ELSE url

\* get_response, lines 142-143
StripJson(url) ==
    IF url # None THEN PyStr(RemoveSuffix(url.v, <<".","j","s","o","n">>)) ELSE url

-----------------------------------------------------------------------------
(* What one GET attempt can do *)

\* The exception classes session.get raises, with the classes each one
\* inherits from (requests.exceptions, urllib3.exceptions).
ExceptionBases ==
    [ SSLError           |-> {"SSLError", "ConnectionError", "RequestException", "Exception"},
      ConnectionError    |-> {"ConnectionError", "RequestException", "Exception"},
      ConnectTimeout     |-> {"ConnectTimeout", "ConnectionError", "Timeout",
                              "RequestException", "Exception"},
      ReadTimeout        |-> {"ReadTimeout", "Timeout", "RequestException", "Exception"},
      LocationParseError |-> {"LocationParseError", "HTTPError", "Exception"},
      MissingSchema      |-> {"MissingSchema", "RequestException", "Exception"} ]

Exceptions == DOMAIN ExceptionBases

IsInstance(exc, class) == class \in ExceptionBases[exc]

\* The responses a server gives for a page: readable, unparseable markup,
\* a blacklisted type, an oversized body, an error status.
PageResponses(page) ==
    { HTMLResponse(200, Bytes(100, "html", page), ContentTypeHeader(CT_html)),
      HTMLResponse(200, Bytes(100, "rejected", page), ContentTypeHeader(CT_html)),
      HTMLResponse(200, Bytes(100, "pdf", page), ContentTypeHeader(CT_pdf)),
      HTMLResponse(200, Bytes(MaxBodyBytes + 1, "html", page), ContentTypeHeader(CT_html)),
      HTMLResponse(404, Bytes(100, "html", page), ContentTypeHeader(CT_html)) }

\* session.get(url, ...): a url of None has no scheme, and requests raises
\* MissingSchema for it; any other url gets a response or any exception.
AttemptOutcomes(url) ==
    IF url = None
    THEN {Raised("MissingSchema")}
    ELSE {Return(r) : r \in PageResponses(url.v)} \cup {Raised(e) : e \in Exceptions}

-----------------------------------------------------------------------------
(* get_response *)

Get(url, verify) == [url |-> url, verify |-> verify]

\* The task as it waits for its first GET (lines 136-146).
NewTask(url, index) ==
    [pc |-> "first", index |-> index, url |-> StripJson(url),
     gets |-> <<Get(StripJson(url), TRUE)>>, result |-> None]

\* A faulty variant of Handler: every Timeout is handled by the no-retry clause.
HandlerTimeoutFirst(exc) ==
    IF exc = "SSLError" THEN "ssl"
    ELSE IF IsInstance(exc, "Timeout") \/ exc = "LocationParseError" THEN "noretry"
    ELSE IF IsInstance(exc, "ConnectionError") THEN "conn"
    ELSE "other"

\* The except clause that handles an exception of the first attempt: the
\* first clause, in the order written, whose classes the exception is an
\* instance of (lines 147, 154, 163, 166).
Handler(exc) ==
    IF IsInstance(exc, "SSLError") THEN "ssl"
    ELSE IF IsInstance(exc, "ConnectionError") THEN "conn"
    ELSE IF IsInstance(exc, "LocationParseError") \/ IsInstance(exc, "ReadTimeout")
         THEN "noretry"
    ELSE "other"

\* The finally block (lines 171-183): the filter, then the return, which
\* also discards an exception that is propagating.
Finally(task, response) ==
    LET out == response_valid(response, HeaderContentType(response))
    IN  IF out.kind = "raise"
        THEN [task EXCEPT !.pc = "raised"]
        ELSE [task EXCEPT !.pc = "done",
                 !.result = [index |-> task.index, response |-> out.value]]

\* A faulty variant of InsertS: the fifth character is replaced by "s".
InsertSReplace(url) ==
    PyStr(SubSeq(url.v, 1, 4) \o <<"s">> \o SubSeq(url.v, 6, Len(url.v)))

\* url[:4] + "s" + url[4:]
InsertS(url) == PyStr(SubSeq(url.v, 1, 4) \o <<"s">> \o SubSeq(url.v, 5, Len(url.v)))

\* The first attempt has ended (lines 145-170): the task either issues its
\* retry and waits for it, or runs the finally block.
AfterFirst(task, outcome) ==
    IF outcome.kind = "return"
    THEN Finally(task, outcome.value)
    ELSE IF Handler(outcome.exc) = "ssl"
         THEN [task EXCEPT !.pc = "retry",
                           !.gets = Append(@, Get(task.url, FALSE))]
         ELSE IF Handler(outcome.exc) = "conn"
              THEN \* url[4] of a url shorter than five characters raises
                   \* IndexError inside the handler
                   IF Len(task.url.v) >= 5 /\ task.url.v[5] # "s"
                   THEN [task EXCEPT !.pc = "retry", !.url = InsertS(task.url),
                                     !.gets = Append(@, Get(InsertS(task.url), TRUE))]
                   ELSE Finally(task, None)
              ELSE Finally(task, None)

\* A faulty variant of AfterRetry: a retry that raises is handled like a first attempt.
AfterRetryAgain(task, outcome) ==
    IF outcome.kind = "return"
    THEN Finally(task, outcome.value)
    ELSE IF Handler(outcome.exc) \in {"ssl", "conn"} /\ Len(task.gets) < 4
         THEN [task EXCEPT !.gets = Append(@, Get(task.url, FALSE))]
         ELSE Finally(task, None)

\* A faulty variant of AfterRetry: the retried response is not assigned.
AfterRetryLost(task, outcome) == Finally(task, None)

\* The retry has ended (lines 153, 162): its response is assigned; an
\* exception it raises inside the handler reaches the finally block, whose
\* return discards it, response still being None.
AfterRetry(task, outcome) ==
    IF outcome.kind = "return"
    THEN Finally(task, outcome.value)
    ELSE Finally(task, None)

-----------------------------------------------------------------------------
(* Strings *)

EmptyStr == PyStr(<<>>)

\* str.split(): the words of s, split at runs of blanks
RECURSIVE SplitAcc(_, _, _)
SplitAcc(s, cur, acc) ==
    IF s = <<>>
    THEN IF cur = <<>> THEN acc ELSE Append(acc, cur)
    ELSE IF Head(s) = " "
         THEN SplitAcc(Tail(s), <<>>, IF cur = <<>> THEN acc ELSE Append(acc, cur))
         ELSE SplitAcc(Tail(s), Append(cur, Head(s)), acc)

Split(s) == SplitAcc(s, <<>>, <<>>)

\* sep.join(words)
RECURSIVE Join(_, _)
Join(sep, words) ==
    IF words = <<>> THEN <<>>
    ELSE IF Len(words) = 1 THEN words[1]
    ELSE words[1] \o sep \o Join(sep, Tail(words))

\* " ".join(s.split()).strip(): the joined words have no blank at either
\* end, so strip() leaves them as they are.
remove_excess_whitespace(s) == PyStr(Join(<<" ">>, Split(s.v)))

\* json.dumps of a list of strings
JsonDumps(list) ==
    PyStr(<<"[">> \o Join(<<",", " ">>, [k \in 1..Len(list) |-> <<"\"">> \o list[k] \o <<"\"">>])
          \o <<"]">>)

RECURSIVE FindFrom(_, _, _)
FindFrom(s, k, c) ==
    IF k > Len(s) THEN 0 ELSE IF s[k] = c THEN k ELSE FindFrom(s, k + 1, c)

\* urlparse(url).path of a url "scheme://host/path" without query or fragment
UrlParsePath(s) ==
    LET slash == FindFrom(s, FindFrom(s, 1, ":") + 3, "/")
    IN  IF slash = 0 THEN <<>> ELSE SubSeq(s, slash, Len(s))

-----------------------------------------------------------------------------
(* The feature extractor *)

\* Tags(): the dataclass with its defaults
Tags ==
    [index |-> None, url |-> EmptyStr, url_path |-> EmptyStr, html_title |-> EmptyStr,
     meta_description |-> EmptyStr, root_page_title |-> EmptyStr, http_response |-> -1,
     h1 |-> EmptyStr, h2 |-> EmptyStr, h3 |-> EmptyStr, h4 |-> EmptyStr,
     h5 |-> EmptyStr, h6 |-> EmptyStr, div_text |-> EmptyStr]

header_tags == <<"h1", "h2", "h3", "h4", "h5", "h6">>

\* root_url_cache.get_title(url): a best-effort title
get_title(url) == PyStr(<<" ", "r", "o", "o", "t", " ">>)

\* get_url: url_response["url"][0] is the cell of the url column;
\* startswith of a cell that is None raises AttributeError.
get_url(url_response) ==
    LET url == url_response.url IN
    IF url = None
    THEN Raised("AttributeError")
    ELSE LET new_url == IF ~StartsWith(url.v, <<"h","t","t","p">>)
                        THEN <<"h","t","t","p","s",":","/","/">> \o url.v
                        ELSE url.v
             path == UrlParsePath(new_url)
             tail == SubSeq(path, 2, Len(path))
             url_path == IF tail # <<>> /\ tail[Len(tail)] = "/"
                         THEN SubSeq(tail, 1, Len(tail) - 1)
                         ELSE tail
         IN  Return([url |-> url, url_path |-> PyStr(url_path)])

\* A faulty variant of verify_response: a response without a body is
\* reported like an absent one.
verify_response_NoBody(res) ==
    IF res = None \/ res.content = None
    THEN [verified |-> FALSE, http_response |-> -1]
    ELSE [verified |-> Ok(res), http_response |-> res.status_code]

\* verify_response
verify_response(res) ==
    IF res = None
    THEN [verified |-> FALSE, http_response |-> -1]
    ELSE IF ~Ok(res)
         THEN [verified |-> FALSE, http_response |-> res.status_code]
         ELSE [verified |-> TRUE, http_response |-> res.status_code]

\* get_parser: "False" stands for the value False
get_parser(res) ==
    IF "content-type" \notin DOMAIN res.headers THEN "False"
    ELSE IF Contains(res.headers["content-type"], "html") THEN "lxml"
    ELSE IF Contains(res.headers["content-type"], "xml") THEN "lxml-xml"
    ELSE "False"

\* The document a page's markup parses to: a title with excess blanks, a
\* description, an h1, an h2 that is only a link beside a plain h2, and two
\* block containers.  A rendered page differs from the raw one by its title.
Document(content, rendered) ==
    [title |-> <<" ">> \o content.page \o <<" ", " ">>
               \o (IF rendered THEN <<"j", "s">> ELSE <<"r", "a", "w">>),
     meta  |-> <<"d", " ", " ", "e">>,
     h1 |-> << [text |-> <<"H">>, a |-> FALSE] >>,
     h2 |-> << [text |-> <<"n", "a", "v">>, a |-> TRUE], [text |-> <<"T">>, a |-> FALSE] >>,
     h3 |-> <<>>, h4 |-> <<>>, h5 |-> <<>>, h6 |-> <<>>,
     divs |-> << <<"a", " ", "b">>, <<"c">> >>]

\* BeautifulSoup(res.html.html, parser): a plain Response has no html
\* attribute; rejected markup raises ParserRejectedMarkup.
BeautifulSoup(res, parser) ==
    IF res.t # "HTMLResponse" THEN Raised("AttributeError")
    ELSE IF res.content.markup = "rejected" THEN Raised("ParserRejectedMarkup")
    ELSE Return(Document(res.content, res.rendered))

get_html_title(soup) == remove_excess_whitespace(PyStr(soup.title))

get_meta_description(soup) == remove_excess_whitespace(PyStr(soup.meta))

\* One level of get_header_tags: the headers without a link, as JSON
HeaderContent(headers) ==
    LET kept == SelectSeq(headers, LAMBDA h : ~h.a)
    IN  JsonDumps([k \in 1..Len(kept) |-> kept[k].text])

MAX_WORDS == 500

\* The loop of get_div_text over the block containers
RECURSIVE DivLoop(_, _)
DivLoop(divs, div_text) ==
    IF divs = <<>> THEN div_text
    ELSE IF Head(divs) = <<>> THEN DivLoop(Tail(divs), div_text)
    ELSE IF Len(Split(div_text)) + Len(Split(Head(divs))) <= MAX_WORDS
         THEN DivLoop(Tail(divs), div_text \o Head(divs) \o <<" ">>)
         ELSE div_text

get_div_text(soup) ==
    LET div_text == DivLoop(soup.divs, <<>>)
    IN  PyStr(SubSeq(div_text, 1,
                     IF Len(div_text) < MAX_WORDS * 10 THEN Len(div_text) ELSE MAX_WORDS * 10))

\* parse_response: the record of one url, or the exception that leaves it
parse_response(url_response) ==
    LET res == url_response.response
        got == get_url(url_response)
    IN
    IF got.kind = "raise" THEN got
    ELSE
    LET ver == verify_response(res)
        tags1 == [Tags EXCEPT !.index = url_response.index,
                              !.url = got.value.url,
                              !.url_path = got.value.url_path,
                              !.root_page_title = remove_excess_whitespace(get_title(got.value.url)),
                              !.http_response = ver.http_response]
    IN
    IF ~ver.verified THEN Return(tags1)
    ELSE IF get_parser(res) = "False" THEN Return(tags1)
    ELSE
    LET made == BeautifulSoup(res, get_parser(res)) IN
    IF made.kind = "raise" THEN Return(tags1)
    ELSE
    LET soup == made.value IN
    Return([tags1 EXCEPT !.html_title = get_html_title(soup),
                         !.meta_description = get_meta_description(soup),
                         !.h1 = HeaderContent(soup.h1), !.h2 = HeaderContent(soup.h2),
                         !.h3 = HeaderContent(soup.h3), !.h4 = HeaderContent(soup.h4),
                         !.h5 = HeaderContent(soup.h5), !.h6 = HeaderContent(soup.h6),
                         !.div_text = get_div_text(soup)])

-----------------------------------------------------------------------------
(* The batch worker: process_urls, run_get_response, render_js *)

N == Len(urls)

WorkerIdle ==
    /\ urls = <<>> /\ render_javascript = FALSE /\ pc = Idle /\ tasks = <<>>
    /\ completed = <<>>
    /\ attempts = <<>>
    /\ urls_and_responses = <<>> /\ cursor = 0 /\ urls_and_headers = <<>>
    /\ manager_list = <<>>

\* collector_main has put the batch in manager_list[0]; process_urls has
\* built new_urls and run_get_response has started one task per url.
WorkerInit ==
    /\ urls \in UNION {[1..n -> UrlValues] : n \in 1..MaxUrls}
    /\ render_javascript \in BOOLEAN
    /\ pc = "fetch"
    /\ tasks = [i \in 1..Len(urls) |-> NewTask(NewUrl(urls[i]), i - 1)]
    /\ completed = <<>>
    /\ attempts = <<>>
    /\ urls_and_responses = <<>>
    /\ cursor = 0
    /\ urls_and_headers = <<>>
    /\ manager_list = <<[kind |-> "input", rows |-> urls]>>

\* The history of the GETs, when it is recorded (it is <<>> when it is not)
Log(history, i, outcome) ==
    IF history = <<>> THEN history ELSE [history EXCEPT ![i] = Append(@, outcome)]

\* The worker on a batch whose GETs are recorded.
TracedInit ==
    /\ urls \in UNION {[1..n -> UrlValues \cup {U_https}] : n \in 1..MaxTracedUrls}
    /\ render_javascript \in BOOLEAN
    /\ pc = "fetch"
    /\ tasks = [i \in 1..Len(urls) |-> NewTask(NewUrl(urls[i]), i - 1)]
    /\ completed = <<>>
    /\ attempts = [i \in 1..Len(urls) |-> <<>>]
    /\ urls_and_responses = <<>>
    /\ cursor = 0
    /\ urls_and_headers = <<>>
    /\ manager_list = <<[kind |-> "input", rows |-> urls]>>

\* The first GET of task i ends.
FirstAttemptDone(i) ==
    /\ pc = "fetch"
    /\ tasks[i].pc = "first"
    /\ \E outcome \in AttemptOutcomes(tasks[i].gets[1].url) :
          /\ tasks' = [tasks EXCEPT ![i] = AfterFirst(@, outcome)]
          /\ completed' = IF AfterFirst(tasks[i], outcome).pc = "retry"
                          THEN completed ELSE Append(completed, i)
          /\ attempts' = Log(attempts, i, outcome)
    /\ UNCHANGED <<urls, render_javascript, pc, urls_and_responses, cursor,
                   urls_and_headers, manager_list, renderVars, offWorker>>

\* The retry GET of task i ends.
RetryDone(i) ==
    /\ pc = "fetch"
    /\ tasks[i].pc = "retry"
    /\ \E outcome \in AttemptOutcomes(tasks[i].gets[Len(tasks[i].gets)].url) :
          /\ tasks' = [tasks EXCEPT ![i] = AfterRetry(@, outcome)]
          /\ completed' = IF AfterRetry(tasks[i], outcome).pc = "retry"
                          THEN completed ELSE Append(completed, i)
          /\ attempts' = Log(attempts, i, outcome)
    /\ UNCHANGED <<urls, render_javascript, pc, urls_and_responses, cursor,
                   urls_and_headers, manager_list, renderVars, offWorker>>

\* list.sort(key=lambda d: d["index"]): a stable insertion sort
RECURSIVE InsertByIndex(_, _)
InsertByIndex(sorted, d) ==
    IF sorted = <<>> THEN <<d>>
    ELSE IF sorted[Len(sorted)].index <= d.index THEN Append(sorted, d)
    ELSE Append(InsertByIndex(SubSeq(sorted, 1, Len(sorted) - 1), d), sorted[Len(sorted)])

RECURSIVE SortFrom(_, _)
SortFrom(list, sorted) ==
    IF list = <<>> THEN sorted ELSE SortFrom(Tail(list), InsertByIndex(sorted, Head(list)))

SortByIndex(list) == SortFrom(list, <<>>)

\* A faulty variant of UrlsAndResponses: the url is taken by the result's position
\* counted from the end.
UrlsAndResponsesReversed(results, rows) ==
    [i \in 1..Len(results) |->
        [index |-> results[i].index, url |-> rows[Len(results) + 1 - i],
         response |-> results[i].response]]

\* Lines 73-75: urls[i] is the row of the dataframe at the result's position
UrlsAndResponses(results, rows) ==
    [i \in 1..Len(results) |->
        [index |-> results[i].index, url |-> rows[i], response |-> results[i].response]]

\* tqdm.gather(*tasks): each result is collected with its task's position
\* as the tasks end, and the results are returned sorted by that position.
Gather(order, ts) ==
    LET res == [k \in 1..Len(order) |-> [index |-> order[k], value |-> ts[order[k]].result]]
        sorted == SortByIndex(res)
    IN  [k \in 1..Len(sorted) |-> sorted[k].value]

\* Every task has ended (an exception of a task leaves process_urls):
\* lines 69-75, up to the next await or to the parsing loop.
GatherDone ==
    /\ pc = "fetch"
    /\ Len(completed) = N
    /\ IF \E i \in 1..N : tasks[i].pc = "raised"
       THEN /\ pc' = "crashed"
            /\ UNCHANGED <<urls_and_responses, cursor>>
       ELSE /\ urls_and_responses' =
                  UrlsAndResponses(SortByIndex(Gather(completed, tasks)), urls)
            /\ cursor' = 1
            /\ pc' = IF render_javascript THEN "render" ELSE "parse"
    /\ UNCHANGED <<urls, render_javascript, tasks, completed, attempts,
                   urls_and_headers, manager_list, renderVars, offWorker>>

RenderBehaviours == {"completes", "PageError", "Exception", "hangs"}

\* One item of render_js: skipped unless the response is present and ok and
\* has an html attribute; rendering replaces the html only when it completes.
RenderOne(res, behaviour) ==
    IF res = None THEN res
    ELSE IF ~Ok(res) THEN res
    ELSE IF res.t # "HTMLResponse" THEN res
    ELSE IF behaviour = "completes" THEN [res EXCEPT !.rendered = TRUE]
    ELSE res

RenderItem ==
    /\ pc = "render"
    /\ \E behaviour \in RenderBehaviours :
          urls_and_responses' =
              [urls_and_responses EXCEPT ![cursor].response = RenderOne(@, behaviour)]
    /\ IF cursor = N
       THEN pc' = "parse" /\ cursor' = 1
       ELSE pc' = pc /\ cursor' = cursor + 1
    /\ UNCHANGED <<urls, render_javascript, tasks, completed, attempts,
                   urls_and_headers, manager_list, renderVars, offWorker>>

-----------------------------------------------------------------------------
(* render_js poll by poll: RenderItem above is one item of it as one step *)

\* The polls after which the loop gives up (line 247)
RenderPolls == 150

RenderIdle ==
    /\ render_pc = Idle /\ render_task = "none" /\ time_elapsed = 0 /\ render_log = <<>>

\* What the fetch of a url left in its task: a readable page, a discarded
\* 200 response, a discarded 404 response, or no response.
RenderCases == {"page", "pdf", "notfound", "failed"}

FetchedCase(url, case) ==
    CASE case = "page" ->
             HTMLResponse(200, Bytes(100, "html", url.v), ContentTypeHeader(CT_html))
      [] case = "pdf" ->
             HTMLResponse(200, Bytes(100, "pdf", url.v), ContentTypeHeader(CT_pdf))
      [] case = "notfound" ->
             HTMLResponse(404, Bytes(100, "html", url.v), ContentTypeHeader(CT_html))
      [] OTHER -> None

\* process_urls as it calls render_js (line 78): every task has ended, in
\* the order of the batch, and urls_and_responses is built.
RenderInit ==
    /\ urls \in UNION {[1..n -> {U_http, U_bare}] : n \in 1..MaxRenderUrls}
    /\ render_javascript = TRUE
    /\ pc = "render"
    /\ \E cases \in [1..Len(urls) -> RenderCases] :
          tasks = [i \in 1..Len(urls) |->
                      Finally(NewTask(NewUrl(urls[i]), i - 1),
                              FetchedCase(StripJson(NewUrl(urls[i])), cases[i]))]
    /\ completed = [i \in 1..Len(urls) |-> i]
    /\ attempts = <<>>
    /\ urls_and_responses = UrlsAndResponses(SortByIndex(Gather(completed, tasks)), urls)
    /\ cursor = 1
    /\ urls_and_headers = <<>>
    /\ manager_list = <<[kind |-> "input", rows |-> urls]>>
    /\ render_pc = "start"
    /\ render_task = "none"
    /\ time_elapsed = 0
    /\ render_log = <<>>

\* A faulty variant of CreatesTask: a task is created for every ok response.
CreatesTaskAnyOk(res) == res # None /\ Ok(res)

\* Lines 231-239: a task is created unless the response is None or not ok,
\* or has no html attribute (AttributeError).
CreatesTask(res) == res # None /\ Ok(res) /\ res.t = "HTMLResponse"

\* A faulty variant of TimedOut: the loop gives up two polls later.
TimedOutLater(elapsed) == elapsed > RenderPolls + 2

\* Line 247
TimedOut(elapsed) == elapsed > RenderPolls

\* A faulty variant of AwaitTask: no clause catches the cancellation.
AwaitTaskNoCancelClause(task) ==
    IF task = "completes" THEN "returns"
    ELSE IF task \in {"PageError", "Exception"} THEN "caught"
    ELSE "raises"

\* `await task` under its except clauses (lines 250-262): the task's
\* result, or its exception caught by the first clause (PageError,
\* NetworkError), the second (Exception) or the third (CancelledError).
AwaitTask(task) ==
    IF task = "completes" THEN "returns"
    ELSE IF task = "PageError" THEN "caught"
    ELSE IF task = "Exception" THEN "caught"
    ELSE IF task = "cancelled" THEN "caught"
    ELSE "raises"

\* The for loop moves to the next item, or render_js returns.
RenderAdvance ==
    /\ render_pc' = "start"
    /\ IF cursor = N
       THEN pc' = "parse" /\ cursor' = 1
       ELSE pc' = pc /\ cursor' = cursor + 1

\* Lines 229-242: the item is skipped, or its task is created.
RenderStart ==
    /\ pc = "render"
    /\ render_pc = "start"
    /\ IF CreatesTask(urls_and_responses[cursor].response)
       THEN /\ render_task' = "pending"
            /\ time_elapsed' = 0
            /\ render_pc' = "loop"
            /\ UNCHANGED <<pc, cursor, render_log>>
       ELSE /\ render_log' = Append(render_log, [task |-> FALSE, end |-> "skipped"])
            /\ RenderAdvance
            /\ UNCHANGED <<render_task, time_elapsed>>
    /\ UNCHANGED <<urls, render_javascript, tasks, completed, attempts, urls_and_responses,
                   urls_and_headers, manager_list, offWorker>>

\* One turn of the loop (lines 243-249): the counter, the 0.1 s sleep,
\* during which the task does one of RenderBehaviours, then the test of
\* the counter and the test of task.done().
RenderPoll ==
    /\ pc = "render"
    /\ render_pc = "loop"
    /\ time_elapsed' = time_elapsed + 1
    /\ \E behaviour \in RenderBehaviours :
          LET slept == IF behaviour = "hangs" THEN "pending" ELSE behaviour IN
          IF TimedOut(time_elapsed')
          THEN /\ render_task' = IF slept = "pending" THEN "cancelled" ELSE slept
               /\ render_pc' = "await"
          ELSE /\ render_task' = slept
               /\ render_pc' = IF slept = "pending" THEN "loop" ELSE "await"
    /\ UNCHANGED <<workerVars, render_log, offWorker>>

\* Lines 250-262: the task is awaited; a render that completed has
\* replaced the html of the response.  time_elapsed is not read again
\* before line 242 assigns it, and is kept at 0 between two items.
RenderAwait ==
    /\ pc = "render"
    /\ render_pc = "await"
    /\ IF AwaitTask(render_task) = "raises"
       THEN /\ pc' = "crashed"
            /\ UNCHANGED <<urls_and_responses, cursor, render_pc, render_log>>
       ELSE /\ urls_and_responses' =
                  [urls_and_responses EXCEPT ![cursor].response =
                      IF render_task = "completes" THEN [@ EXCEPT !.rendered = TRUE] ELSE @]
            /\ render_log' = Append(render_log, [task |-> TRUE, end |-> render_task])
            /\ RenderAdvance
    /\ render_task' = "none"
    /\ time_elapsed' = 0
    /\ UNCHANGED <<urls, render_javascript, tasks, completed, attempts,
                   urls_and_headers, manager_list, offWorker>>

\* url_headers.pop("index")
PopIndex(record) == [f \in DOMAIN record \ {"index"} |-> record[f]]

\* pl.all().fill_null("")
FillNull(row) ==
    [f \in DOMAIN row |->
        IF f = "http_response" THEN row[f]
        ELSE IF row[f] = None THEN EmptyStr ELSE row[f]]

\* Lines 87-89: the dataframe of the records
FeatureTable(records) ==
    [kind |-> "features", rows |-> [k \in 1..Len(records) |-> FillNull(PopIndex(records[k]))]]

\* The parsing loop (lines 84-85): the records parsed so far, and the
\* exception of parse_response that ended the loop, if one did
RECURSIVE ParseLoop(_, _)
ParseLoop(items, records) ==
    IF items = <<>> THEN [kind |-> "return", records |-> records]
    ELSE LET out == parse_response(Head(items)) IN
         IF out.kind = "raise"
         THEN [kind |-> "raise", records |-> records]
         ELSE ParseLoop(Tail(items), Append(records, out.value))

\* Lines 82-92, which run without an await: the parsing loop, then the
\* table is stored.  An exception of parse_response leaves process_urls,
\* and manager_list[0] stays what collector_main put there.
ParseAndStore ==
    /\ pc = "parse"
    /\ LET loop == ParseLoop(urls_and_responses, <<>>) IN
       /\ urls_and_headers' = loop.records
       /\ IF loop.kind = "raise"
          THEN /\ pc' = "crashed"
               /\ UNCHANGED manager_list
          ELSE /\ manager_list' = <<FeatureTable(loop.records)>>
               /\ pc' = "stored"
    /\ UNCHANGED <<urls, render_javascript, tasks, completed, attempts,
                   urls_and_responses, cursor, renderVars, offWorker>>

-----------------------------------------------------------------------------
(* The result merger: the end of __main__ *)

Null == "null"
MergeUrls == {"a.com", "b.com"}
Titles == {"t1", "t2"}

\* The columns of the input table that line 551 drops
DroppedColumns ==
    {"http_response", "html_title", "meta_description", "root_page_title",
     "h1", "h2", "h3", "h4", "h5", "h6"}

\* df.drop([...]) on one row
DropColumns(row) == [f \in DOMAIN row \ DroppedColumns |-> row[f]]

\* The name the join gives a right column whose name the left table has too
RightName(f) ==
    CASE f = "url_path" -> "url_path_right"
      [] f = "div_text" -> "div_text_right"
      [] f = "html_title" -> "html_title_right"
      [] f = "label" -> "label_right"
      [] OTHER -> f

\* The columns of the feature table of the model, the join key apart
RightColumns == {"html_title", "url_path", "div_text"}

\* The joined row of a left row and a matching right row (NoMatch: nulls)
JoinRow(l, r, matched) ==
    LET fresh == {f \in RightColumns : f \notin DOMAIN l}
        clash == {RightName(f) : f \in RightColumns \cap DOMAIN l}
        col(f) == IF f \in DOMAIN l THEN l[f]
                  ELSE IF ~matched THEN Null
                  ELSE IF f \in fresh THEN r[f]
                  ELSE r[CHOOSE g \in RightColumns : RightName(g) = f]
    IN  [f \in DOMAIN l \cup fresh \cup clash |-> col(f)]

\* df.join(cumulative_df, on="url", how="left"): the left rows in order,
\* each with every right row of its url, or with nulls when there is none
RECURSIVE LeftJoin(_, _)
LeftJoin(left, right) ==
    IF left = <<>> THEN <<>>
    ELSE LET l == Head(left)
             matches == SelectSeq(right, LAMBDA r : r.url = l.url)
         IN  (IF matches = <<>>
              THEN << JoinRow(l, l, FALSE) >>
              ELSE [k \in 1..Len(matches) |-> JoinRow(l, matches[k], TRUE)])
             \o LeftJoin(Tail(left), right)

\* A faulty variant of Unique: the last row of each url is kept.
RECURSIVE UniqueLast(_)
UniqueLast(rows) ==
    IF rows = <<>> THEN <<>>
    ELSE IF \E k \in 2..Len(rows) : rows[k].url = Head(rows).url
         THEN UniqueLast(Tail(rows))
         ELSE <<Head(rows)>> \o UniqueLast(Tail(rows))

\* unique(subset=["url"], maintain_order=True): the first row of each url
RECURSIVE UniqueFrom(_, _)
UniqueFrom(rows, kept) ==
    IF rows = <<>> THEN kept
    ELSE IF \E k \in 1..Len(kept) : kept[k].url = Head(rows).url
         THEN UniqueFrom(Tail(rows), kept)
         ELSE UniqueFrom(Tail(rows), Append(kept, Head(rows)))

Unique(rows) == UniqueFrom(rows, <<>>)

Labels == <<"L1", "L2", "L3", "L4", "L5">>

MergeIdle ==
    /\ mDf = <<>> /\ mCumulative = <<>> /\ mStage = Idle /\ mOut = <<>>

\* The columns an input table has when it is an earlier output of the
\* collector: those that Tags had then, with or without url_path and
\* div_text
StaleColumns == {DroppedColumns, DroppedColumns \cup {"url_path", "div_text"}}

\* The input table (each row with its own label and the stale columns of
\* an earlier run) and the concatenated feature table.
MergeInit ==
    /\ \E us \in UNION {[1..n -> MergeUrls] : n \in 1..MaxRows} :
       \E stale \in StaleColumns :
          mDf = [k \in 1..Len(us) |->
                    [f \in {"url", "label"} \cup stale |->
                        IF f = "url" THEN us[k]
                        ELSE IF f = "label" THEN Labels[k] ELSE "stale"]]
    /\ mCumulative \in UNION {[1..n -> [url : MergeUrls, html_title : Titles,
                                         url_path : {"p"}, div_text : {"d"}]] :
                                 n \in 0..MaxRows}
    /\ mStage = "loaded"
    /\ mOut = <<>>

\* Lines 550-555: drop, join, unique
Merge ==
    /\ mStage = "loaded"
    /\ mOut' = Unique(LeftJoin([k \in 1..Len(mDf) |-> DropColumns(mDf[k])], mCumulative))
    /\ mStage' = "merged"
    /\ UNCHANGED <<mDf, mCumulative, offMerge>>

-----------------------------------------------------------------------------
(* The batch orchestrator: process_in_batches and collector_main *)

BatchIdle ==
    /\ bDf = <<>> /\ batch_size = 1 /\ bI = 0 /\ bPc = Idle /\ bProcs = <<>>
    /\ bManager = <<>> /\ cumulative_df = None

\* A table: the rows, and whether its columns are those of the input table
\* or those of Tags
Table(kind, rows) == [kind |-> kind, rows |-> rows]

\* pl.DataFrame()
EmptyTable == Table("empty", <<>>)

\* process_in_batches is called: the input rows, each with its position
\* and a url cell that is a url or null, and the batch size.
BatchInit ==
    /\ \E cells \in UNION {[1..n -> {"u", Null}] : n \in 0..MaxBatchRows} :
          bDf = [k \in 1..Len(cells) |-> [row |-> k, url |-> cells[k]]]
    /\ batch_size \in 1..MaxBatchSize
    /\ bI = 0
    /\ bPc = "loop"
    /\ bProcs = <<>>
    /\ bManager = <<>>
    /\ cumulative_df = EmptyTable

\* Line 503
num_batches == (Len(bDf) + batch_size - 1) \div batch_size

Min(a, b) == IF a <= b THEN a ELSE b

\* process_urls on manager_list[0] (lines 57-92), as the worker model
\* shows it: a table of one record per row, in the order of the rows, is
\* stored, unless a url cell is null, when get_url raises, the process ends
\* and manager_list[0] stays the batch.
WorkerOutcome(table) ==
    IF \E k \in 1..Len(table.rows) : table.rows[k].url = Null
    THEN table
    ELSE Table("features", table.rows)

\* pl.concat([a, b], how="vertical"): the tables must have the same
\* columns; the input table does not have the columns of Tags.
Concat(a, b) ==
    IF a.kind # b.kind
    THEN Raised("ShapeError")
    ELSE Return(Table(a.kind, a.rows \o b.rows))

\* A faulty variant of JoinReturns: join does not wait for the process.
JoinReturnsAtOnce(state) == TRUE

\* process.join() (line 482) returns when the process has ended.
JoinReturns(state) == state = "exited"

\* Lines 510-518 and 476-481: the slice, the manager with the slice in its
\* list, and the process started.
BatchStart ==
    /\ bPc = "loop"
    /\ bI < num_batches
    /\ LET start_idx == bI * batch_size
           end_idx == Min((bI + 1) * batch_size, Len(bDf))
           batch_df == Table("input", SubSeq(bDf, start_idx + 1, end_idx))
       IN  /\ bManager' = <<batch_df>>
           /\ bProcs' = Append(bProcs, [start_idx |-> start_idx, end_idx |-> end_idx,
                                        batch_df |-> batch_df, state |-> "running",
                                        collected |-> FALSE, header_tags_df |-> None])
    /\ bPc' = "join"
    /\ UNCHANGED <<bDf, batch_size, bI, cumulative_df, offBatch>>

\* The spawned process runs process_urls to its end.
BatchWorkerExit ==
    /\ bProcs # <<>>
    /\ bProcs[Len(bProcs)].state = "running"
    /\ bManager' = <<WorkerOutcome(bManager[1])>>
    /\ bProcs' = [bProcs EXCEPT ![Len(bProcs)].state = "exited"]
    /\ UNCHANGED <<bDf, batch_size, bI, bPc, cumulative_df, offBatch>>

\* Lines 482-484 and 520-525: join returns, collector_main returns
\* manager_list[0], and the table is appended to the cumulative one.
BatchCollect ==
    /\ bPc = "join"
    /\ JoinReturns(bProcs[Len(bProcs)].state)
    /\ LET header_tags_df == bManager[1]
           joined == IF bI = 0 THEN Return(header_tags_df)
                     ELSE Concat(cumulative_df, header_tags_df)
       IN  /\ bProcs' = [bProcs EXCEPT ![Len(bProcs)].collected = TRUE,
                                       ![Len(bProcs)].header_tags_df = header_tags_df]
           /\ IF joined.kind = "raise"
              THEN /\ bPc' = "raised"
                   /\ UNCHANGED <<bI, cumulative_df>>
              ELSE /\ cumulative_df' = joined.value
                   /\ bI' = bI + 1
                   /\ bPc' = "loop"
    /\ UNCHANGED <<bDf, batch_size, bManager, offBatch>>

\* Line 527
BatchReturn ==
    /\ bPc = "loop"
    /\ bI = num_batches
    /\ bPc' = "returned"
    /\ UNCHANGED <<bDf, batch_size, bI, bProcs, bManager, cumulative_df, offBatch>>

-----------------------------------------------------------------------------
(* get_div_text on texts given by the lengths of their words *)

\* A text is the sequence of its runs: n > 0 is a word of n characters,
\* -n is a run of n blanks.  The text of a container (get_text(" ",
\* strip=True)) begins and ends with a word, or is empty.

DivIdle == dDivs = <<>> /\ dStage = Idle /\ dResult = <<>>

\* n words of w characters, one blank between two words
WordsOf(n, w) == [k \in 1..(2 * n - 1) |-> IF k % 2 = 1 THEN w ELSE -1]

\* The texts of the containers of the model: no text, a single word of
\* 50,000 characters, two words around a run of blanks, and texts at and
\* around the limits of 500 words and 5000 characters.
DivTexts ==
    { <<>>, <<50000>>, <<2, -3, 2>>, WordsOf(250, 3), WordsOf(500, 1),
      WordsOf(501, 1), WordsOf(300, 20), WordsOf(1, 5000) }

DivTextInit ==
    /\ dDivs \in UNION {[1..n -> DivTexts] : n \in 0..MaxDivs}
    /\ dStage = "page"
    /\ dResult = <<>>

\* len(s.split())
SplitLen(s) == Cardinality({k \in 1..Len(s) : s[k] > 0})

\* A faulty variant of Slice: the text is returned whole.
SliceNone(s, n) == s

\* The number of characters of the runs lo..hi of s
RECURSIVE RunChars(_, _, _)
RunChars(s, lo, hi) ==
    IF lo > hi THEN 0
    ELSE IF lo = hi THEN (IF s[lo] > 0 THEN s[lo] ELSE -s[lo])
    ELSE LET mid == (lo + hi) \div 2
         IN  RunChars(s, lo, mid) + RunChars(s, mid + 1, hi)

\* The largest k in lo..hi such that the first k runs of s have at most n
\* characters (the first lo runs have)
RECURSIVE WholeRuns(_, _, _, _)
WholeRuns(s, n, lo, hi) ==
    IF lo = hi THEN lo
    ELSE LET mid == (lo + hi + 1) \div 2
         IN  IF RunChars(s, 1, mid) <= n
             THEN WholeRuns(s, n, mid, hi)
             ELSE WholeRuns(s, n, lo, mid - 1)

\* s[:n]: the runs that fit whole, and the part that fits of the next run
Slice(s, n) ==
    LET k == WholeRuns(s, n, 0, Len(s))
        rest == n - RunChars(s, 1, k)
    IN  IF k = Len(s) \/ rest = 0 THEN SubSeq(s, 1, k)
        ELSE Append(SubSeq(s, 1, k), IF s[k + 1] > 0 THEN rest ELSE -rest)

\* The loop of get_div_text (lines 449-457)
RECURSIVE DivTextLoop(_, _)
DivTextLoop(divs, div_text) ==
    IF divs = <<>> THEN div_text
    ELSE IF Head(divs) = <<>> THEN DivTextLoop(Tail(divs), div_text)
    ELSE IF SplitLen(div_text) + SplitLen(Head(divs)) <= MAX_WORDS
         THEN DivTextLoop(Tail(divs), div_text \o Head(divs) \o <<-1>>)
         ELSE div_text

\* get_div_text(soup), soup.find_all("div") being dDivs
GetDivText ==
    /\ dStage = "page"
    /\ dResult' = Slice(DivTextLoop(dDivs, <<>>), MAX_WORDS * 10)
    /\ dStage' = "returned"
    /\ UNCHANGED <<dDivs, offDiv>>

-----------------------------------------------------------------------------
(* The crawler's cursor *)

\* A fresh CommonCrawlerCacheManager over an empty storage: no entry
CrawlIdle == cCache = <<>> /\ cCall = None /\ cFound = {}

CrawlIds == {"CC-MAIN-2023-50", "CC-MAIN-2024-10", "latest"}

\* re.match(r'CC-MAIN-\d{4}-\d{2}', crawl_id)
ValidCrawlId(crawl_id) == crawl_id \in {"CC-MAIN-2023-50", "CC-MAIN-2024-10"}

\* The key of the cursor, for the one search term and keyword of the model
CacheKey(crawl_id) == <<crawl_id, "*.gov", "police">>

\* What search_common_crawl_index does for a page: the records of a 200
\* response, None for another status, or the exception of requests.get or
\* of json.loads
PageResults == {"records", "None", "raises"}

CrawlInit ==
    /\ cCache = <<>>
    /\ cCall = [op |-> "init"]
    /\ cFound = {}

\* cache.get(crawl_id, search_term, keyword): the entry of the key, made
\* with last_page 0 when the cache has none
CacheGet(cache, key) ==
    IF key \in DOMAIN cache THEN cache
    ELSE [k \in DOMAIN cache \cup {key} |-> IF k = key THEN 0 ELSE cache[k]]

\* The loop of crawl (lines 48-65) from next_page on: the last_page of the
\* cache object when the loop ends, whether an exception ended it, the
\* pages searched, in order, and the pages whose records went to the results
RECURSIVE CrawlLoop(_, _, _, _, _)
CrawlLoop(last_page, next_page, start_page, end_page, results) ==
    IF next_page >= end_page
    THEN [last_page |-> last_page, raised |-> FALSE, requested |-> <<>>, found |-> {}]
    ELSE LET records == results[next_page - start_page + 1] IN
         IF records = "raises"
         THEN [last_page |-> last_page, raised |-> TRUE,
               requested |-> <<next_page>>, found |-> {}]
         ELSE IF records = "None"
              THEN LET rest == CrawlLoop(last_page, next_page + 1, start_page, end_page, results)
                   IN  [rest EXCEPT !.requested = <<next_page>> \o @]
              ELSE LET rest == CrawlLoop(next_page, next_page + 1, start_page, end_page, results)
                   IN  [rest EXCEPT !.requested = <<next_page>> \o @,
                                    !.found = {next_page} \cup @]

\* A faulty variant of CrawlPages: the first page searched is last_page.
CrawlPagesFromCursor(last_page, num_pages, results) ==
    CrawlLoop(last_page, last_page, last_page, last_page + num_pages, results)

\* A faulty variant of CrawlPages: the pages are counted from 1 at every call.
CrawlPagesFromOne(last_page, num_pages, results) ==
    CrawlLoop(last_page, 1, 1, 1 + num_pages, results)

\* Lines 45-65: start_page, end_page and the loop
CrawlPages(last_page, num_pages, results) ==
    LET start_page == last_page + 1
        end_page == start_page + num_pages
    IN  CrawlLoop(last_page, start_page, start_page, end_page, results)

\* crawl(crawl_id, search_term, keyword, num_pages)
Crawl ==
    /\ \E crawl_id \in CrawlIds, num_pages \in 0..MaxNumPages :
       \E results \in [1..num_pages -> PageResults] :
          IF ~ValidCrawlId(crawl_id)
          THEN /\ cCall' = [op |-> "crawl", crawl_id |-> crawl_id, raised |-> TRUE]
               /\ UNCHANGED <<cCache, cFound>>
          ELSE LET key == CacheKey(crawl_id)
                   got == CacheGet(cCache, key)
                   out == CrawlPages(got[key], num_pages, results)
               IN  /\ got[key] + num_pages <= MaxPage
                   /\ cCache' = [got EXCEPT ![key] = out.last_page]
                   /\ cFound' = cFound \cup {<<key, page>> : page \in out.found}
                   /\ cCall' = [op |-> "crawl", crawl_id |-> crawl_id,
                                last_page |-> got[key], num_pages |-> num_pages,
                                start_page |-> got[key] + 1, results |-> results,
                                requested |-> out.requested, raised |-> out.raised]
    /\ UNCHANGED offCrawl

\* reset_cache()
ResetCache ==
    /\ cCache' = <<>>
    /\ cCall' = [op |-> "reset_cache"]
    /\ cFound' = {}
    /\ UNCHANGED offCrawl

-----------------------------------------------------------------------------
(* Specifications *)

Init == WorkerInit /\ FilterIdle /\ MergeIdle /\ RenderIdle /\ BatchIdle /\ DivIdle /\ CrawlIdle

Next ==
    \/ \E i \in 1..N : FirstAttemptDone(i)
    \/ \E i \in 1..N : RetryDone(i)
    \/ GatherDone
    \/ RenderItem
    \/ ParseAndStore

Spec == Init /\ [][Next]_vars

InitTraced == TracedInit /\ FilterIdle /\ MergeIdle /\ RenderIdle /\ BatchIdle /\ DivIdle /\ CrawlIdle

SpecTraced == InitTraced /\ [][Next]_vars

InitFilter == FilterInit /\ WorkerIdle /\ MergeIdle /\ RenderIdle /\ BatchIdle /\ DivIdle /\ CrawlIdle

NextFilter ==
    \/ ApplyFilter
    \/ ApplyFilterAgain

SpecFilter == InitFilter /\ [][NextFilter]_vars

InitMerge == MergeInit /\ WorkerIdle /\ FilterIdle /\ RenderIdle /\ BatchIdle /\ DivIdle /\ CrawlIdle

NextMerge == Merge

SpecMerge == InitMerge /\ [][NextMerge]_vars

InitRender == RenderInit /\ FilterIdle /\ MergeIdle /\ BatchIdle /\ DivIdle /\ CrawlIdle

NextRender ==
    \/ RenderStart
    \/ RenderPoll
    \/ RenderAwait
    \/ ParseAndStore

SpecRender == InitRender /\ [][NextRender]_vars

\* The event loop runs a coroutine that can run, and a sleep of 0.1 s ends:
\* a step of render_js that stays possible is eventually taken.
SpecRenderFair ==
    SpecRender /\ WF_vars(RenderStart) /\ WF_vars(RenderPoll) /\ WF_vars(RenderAwait)

InitBatch ==
    BatchInit /\ WorkerIdle /\ RenderIdle /\ FilterIdle /\ MergeIdle /\ DivIdle /\ CrawlIdle

NextBatch ==
    \/ BatchStart
    \/ BatchWorkerExit
    \/ BatchCollect
    \/ BatchReturn

SpecBatch == InitBatch /\ [][NextBatch]_vars

InitDivText ==
    DivTextInit /\ WorkerIdle /\ RenderIdle /\ FilterIdle /\ MergeIdle /\ BatchIdle /\ CrawlIdle

NextDivText == GetDivText

SpecDivText == InitDivText /\ [][NextDivText]_vars

InitCrawl ==
    CrawlInit /\ WorkerIdle /\ RenderIdle /\ FilterIdle /\ MergeIdle /\ BatchIdle /\ DivIdle

NextCrawl ==
    \/ Crawl
    \/ ResetCache

SpecCrawl == InitCrawl /\ [][NextCrawl]_vars

\* The manager when reset_cache is never called
NextCrawlOnly == Crawl

SpecCrawlOnly == InitCrawl /\ [][NextCrawlOnly]_vars

-----------------------------------------------------------------------------
(* Properties *)

Ended == pc \in {"stored", "crashed"}

\* The table the worker stored
StoredRows == manager_list[1].rows

\* C1 (as claimed): whatever the urls and whatever each GET does, the fetch
\* engine returns one outcome per url with the indices 0..N-1, and the
\* feature extractor then produces one record per url with the same indices.
C1_TotalCoverage ==
    Ended =>
        /\ Len(urls_and_responses) = N
        /\ \A i \in 1..N : urls_and_responses[i].index = i - 1
        /\ Len(urls_and_headers) = N
        /\ \A i \in 1..N : urls_and_headers[i].index = i - 1

\* The title the extractor reads from the page served for a url
PageTitle(url, rendered) ==
    PyStr(url.v \o <<" ">> \o (IF rendered THEN <<"j", "s">> ELSE <<"r", "a", "w">>))

\* The response of task i is a page the extractor can read.
Readable(i) ==
    LET res == tasks[i].result.response IN
    /\ res # None
    /\ res.t = "HTMLResponse"
    /\ res.content.markup = "html"

\* C2: in every table a batch stores, whatever the order in which its
\* fetches ended, row i carries the i-th url of the batch with the status
\* code and the page of the response that task i fetched for that url.
C2_OrderRestoration ==
    pc = "stored" =>
        /\ manager_list[1].kind = "features"
        /\ Len(StoredRows) = N
        /\ \A i \in 1..N :
              /\ StoredRows[i].url = urls[i]
              /\ StoredRows[i].http_response =
                    (IF tasks[i].result.response = None THEN -1
                     ELSE tasks[i].result.response.status_code)
              /\ IF Readable(i)
                 THEN StoredRows[i].html_title \in
                          {PageTitle(tasks[i].url, FALSE), PageTitle(tasks[i].url, TRUE)}
                 ELSE StoredRows[i].html_title = EmptyStr

\* C2 witness: a stored table of two different urls whose fetches ended in
\* the reverse of the input order, both pages readable, with different codes
\* or titles.
C2_Witness ==
    /\ pc = "stored"
    /\ N = 2
    /\ completed = <<2, 1>>
    /\ urls[1] # urls[2]
    /\ Readable(1) /\ Readable(2)
    /\ StoredRows[1].html_title # StoredRows[2].html_title

\* The positions of the rows of a table whose url occurs there first
FirstOccurrences(table) ==
    SelectSeq([k \in 1..Len(table) |-> k],
              LAMBDA k : \A j \in 1..(k - 1) : table[j].url # table[k].url)

\* C3: the merged table has one row per distinct input url, in the order
\* of the urls' first occurrences; each row is the first input row of its
\* url with the first feature row of that url, or with null features when
\* there is no feature row.
C3_MergeDedup ==
    mStage = "merged" =>
        LET first == FirstOccurrences(mDf) IN
        /\ Len(mOut) = Cardinality({mDf[k].url : k \in 1..Len(mDf)})
        /\ Len(mOut) = Len(first)
        /\ \A k \in 1..Len(first) :
              LET features == SelectSeq(mCumulative, LAMBDA r : r.url = mDf[first[k]].url) IN
              /\ mOut[k].url = mDf[first[k]].url
              /\ mOut[k].label = mDf[first[k]].label
              /\ mOut[k].html_title =
                    (IF features = <<>> THEN Null ELSE features[1].html_title)

\* C3 witness: a merged table of three input rows, the first url repeated,
\* with two different feature rows for it and none for the other url.
C3_Witness ==
    /\ mStage = "merged"
    /\ Len(mDf) = 3
    /\ mDf[1].url = mDf[2].url
    /\ mDf[3].url # mDf[1].url
    /\ Len(mCumulative) = 2
    /\ mCumulative[1].url = mDf[1].url /\ mCumulative[2].url = mDf[1].url
    /\ mCumulative[1].html_title # mCumulative[2].html_title
    /\ Len(mOut) = 2
    /\ mOut[2].html_title = Null

\* C4 (as claimed): no failure of a single url, a null url included, keeps
\* the worker from running to the end and storing a table with one record
\* per url of the batch, each with its url and a status code.
C4_FailureContainment ==
    Ended =>
        /\ pc = "stored"
        /\ manager_list[1].kind = "features"
        /\ Len(StoredRows) = N
        /\ \A i \in 1..N :
              /\ StoredRows[i].url = urls[i]
              /\ StoredRows[i].http_response \in {-1} \cup StatusCodes

\* C5: a task issues at most two GETs: the first, and at most one retry,
\* which is the same url without verification or the url with "s" inserted;
\* once the retry has ended, whatever it did, the task has ended.
C5_BoundedRetry ==
    \A i \in 1..N :
        LET gets == tasks[i].gets IN
        /\ Len(gets) \in {1, 2}
        /\ Len(attempts[i]) <= Len(gets)
        /\ Len(gets) = 2 =>
              \/ gets[2] = Get(gets[1].url, FALSE)
              \/ gets[2] = Get(InsertS(gets[1].url), TRUE)
        /\ Len(attempts[i]) = 2 => tasks[i].pc = "done"
        /\ tasks[i].pc = "done" => Len(attempts[i]) = Len(gets)

\* C5 witness: a task whose retry raised has ended after its two GETs.
C5_Witness ==
    \E i \in 1..N :
        /\ Len(attempts[i]) = 2
        /\ attempts[i][2].kind = "raise"
        /\ tasks[i].pc = "done"
        /\ Len(tasks[i].gets) = 2

\* A response the filter lets through: ok, not oversized, of a readable type
Passes(r) ==
    /\ r.status_code = 200
    /\ r.content.len <= MaxBodyBytes
    /\ r.headers = ContentTypeHeader(CT_html)

\* The first attempt of task i raised a TLS error and its retry returned a
\* response that passes the filter.
TlsThenSuccess(i) ==
    /\ Len(attempts[i]) = 2
    /\ attempts[i][1] = Raised("SSLError")
    /\ attempts[i][2].kind = "return"
    /\ Passes(attempts[i][2].value)

\* C6: when the first attempt raised a TLS error and the retry (the same
\* url, verification disabled) returned a response that passes the filter,
\* the outcome of that index carries the retried response, not None.
C6_TlsThenSuccess ==
    \A i \in 1..N :
        TlsThenSuccess(i) =>
            /\ tasks[i].gets = <<Get(tasks[i].url, TRUE), Get(tasks[i].url, FALSE)>>
            /\ tasks[i].pc = "done"
            /\ tasks[i].result = [index |-> i - 1, response |-> attempts[i][2].value]
            /\ tasks[i].result.response # None

\* C6 witness
C6_Witness == \E i \in 1..N : TlsThenSuccess(i) /\ tasks[i].pc = "done"

\* Attempt k of task i was the task's last GET, and the task ended Failed
\* with its index.
LastAndFailed(i, k) ==
    /\ Len(tasks[i].gets) = k
    /\ tasks[i].pc = "done"
    /\ tasks[i].result = [index |-> i - 1, response |-> None]

IsSuccess(code) == 200 <= code /\ code < 300

\* C8 (as claimed): a present response is discarded exactly when its body
\* is larger than 10,000,000 bytes, or the content type is blacklisted, or
\* its status is not a success code; the discarded response carries the
\* status code alone, and a response that is not discarded is unmodified.
C8_FilterRule ==
    (fStage \in {"once", "twice"} /\ fResponse # None) =>
        LET discard ==
                \/ fResponse.content.len > MaxBodyBytes
                \/ fContentType # None
                   /\ \E ft \in filtered_types : Contains(fContentType, ft)
                \/ ~IsSuccess(fResponse.status_code)
        IN  /\ fFirst.kind = "return"
            /\ IF discard
               THEN /\ fFirst.value.status_code = fResponse.status_code
                    /\ fFirst.value.content = None
                    /\ fFirst.value.headers = NoHeaders
               ELSE fFirst.value = fResponse

\* C9 (as claimed): response_valid returns for every response, absent or
\* present, and every content type, absent or present; an absent response is
\* returned as absent whatever the content type.
C9_FilterNeverRaises ==
    fStage \in {"once", "twice"} =>
        /\ fFirst.kind = "return"
        /\ fResponse = None => fFirst.value = None

\* C10 (as claimed): the filter applied to a response it has discarded
\* returns, without an error, an equal discarded response.
C10_FilterIdempotent ==
    (fStage = "twice" /\ fFirst.value # None /\ fFirst.value.t = "Response") =>
        /\ fSecond.kind = "return"
        /\ fSecond.value = fFirst.value

\* The last GET of task i returned a 200 response that the filter discards:
\* its body is oversized or its content type is blacklisted.
Discarded200(i) ==
    /\ attempts[i] # <<>>
    /\ LET last == attempts[i][Len(attempts[i])] IN
       /\ last.kind = "return"
       /\ last.value.status_code = 200
       /\ \/ last.value.content.len > MaxBodyBytes
          \/ \E ft \in filtered_types : Contains(last.value.headers["content-type"], ft)

\* The path of each url of the model, without its slashes
PathOf(url) == IF url = U_http THEN PyStr(<<"x">>) ELSE EmptyStr

\* C11: in a stored table, the record of a url whose 200 response was
\* discarded by the filter carries the status code 200, not -1, the path of
\* the url, and an empty title, description, headers and div text; a record
\* carries the code -1 exactly when its outcome has no response at all.
C11_DiscardedNotFailed ==
    pc = "stored" =>
        \A i \in 1..N :
            /\ Discarded200(i) =>
                  /\ StoredRows[i].http_response = 200
                  /\ StoredRows[i].url_path = PathOf(urls[i])
                  /\ \A f \in {"html_title", "meta_description", "div_text",
                                "h1", "h2", "h3", "h4", "h5", "h6"} :
                        StoredRows[i][f] = EmptyStr
            /\ StoredRows[i].http_response = -1 <=> tasks[i].result.response = None

\* C11 witness: a stored record of the http url, with its path, whose
\* oversized 200 response was discarded.
C11_Witness ==
    /\ pc = "stored"
    /\ \E i \in 1..N :
          /\ urls[i] = U_http
          /\ Discarded200(i)
          /\ attempts[i][Len(attempts[i])].value.content.len > MaxBodyBytes
          /\ StoredRows[i].url_path = PyStr(<<"x">>)
          /\ StoredRows[i].http_response = 200

\* C19: a first attempt that raised a connection error is followed by one
\* retry exactly when the fifth character of the url is not "s"; the
\* retried url is the original with an "s" inserted as its fifth character
\* and nothing else changed; when the fifth character is "s" the first GET
\* is the last and the outcome is Failed.
C19_SchemeRetry ==
    \A i \in 1..N :
        (attempts[i] # <<>>
         /\ attempts[i][1] \in {Raised("ConnectionError"), Raised("ConnectTimeout")}) =>
            LET old == tasks[i].gets[1].url.v IN
            IF old[5] = "s"
            THEN LastAndFailed(i, 1)
            ELSE /\ Len(tasks[i].gets) = 2
                 /\ tasks[i].gets[2].verify
                 /\ LET new == tasks[i].gets[2].url.v IN
                    /\ Len(new) = Len(old) + 1
                    /\ new[5] = "s"
                    /\ \A k \in 1..4 : new[k] = old[k]
                    /\ \A k \in 5..Len(old) : new[k + 1] = old[k]

\* C19 witness: the first GET of an http url raised a connection error, the
\* https retry was made, and the task has ended.
C19_Witness ==
    \E i \in 1..N :
        /\ Len(attempts[i]) = 2
        /\ attempts[i][1] = Raised("ConnectionError")
        /\ tasks[i].gets[1].url = U_http
        /\ tasks[i].gets[2].url.v[5] = "s"
        /\ tasks[i].pc = "done"

\* The response that the fetch of item i left, before render_js
Fetched(i) == tasks[i].result.response

\* C12: a render task still pending at a poll is cancelled by the poll that
\* makes the counter exceed 150, so after 149 to 151 polls of 0.1 s and
\* never later; the stored record of an item whose render was cancelled is
\* extracted from the html the fetch returned.
C12_RenderTimeout ==
    /\ render_task = "pending" => time_elapsed <= 150
    /\ render_task = "cancelled" => time_elapsed \in 149..151
    /\ pc = "stored" =>
          \A i \in 1..Len(render_log) :
              render_log[i].end = "cancelled" =>
                  /\ StoredRows[i].html_title = PageTitle(tasks[i].url, FALSE)
                  /\ StoredRows[i].html_title # EmptyStr
                  /\ StoredRows[i].div_text # EmptyStr

\* C12 witness: a stored table with the record of an item whose render was
\* cancelled at the 151st poll.
C12_Witness ==
    /\ pc = "stored"
    /\ \E i \in 1..Len(render_log) :
          /\ render_log[i] = [task |-> TRUE, end |-> "cancelled"]
          /\ StoredRows[i].html_title = PageTitle(tasks[i].url, FALSE)

\* C13: for an item whose outcome is Failed (no response) or Discarded (a
\* bare response, whatever its status code), render_js creates no task and
\* leaves the outcome as the fetch left it.
C13_RenderOnlyOk ==
    \A i \in 1..Len(urls_and_responses) :
        (Fetched(i) = None \/ Fetched(i).t = "Response") =>
            /\ urls_and_responses[i] =
                  [index |-> i - 1, url |-> urls[i], response |-> Fetched(i)]
            /\ (pc = "render" /\ cursor = i) => render_task = "none" /\ render_pc = "start"
            /\ i <= Len(render_log) =>
                  render_log[i] = [task |-> FALSE, end |-> "skipped"]

\* C13 witness: render_js has returned from a batch of a discarded 200
\* response, which it skipped, and a page, for which it created a task.
C13_Witness ==
    /\ pc = "parse"
    /\ Len(render_log) = 2
    /\ \E i, j \in 1..2 :
          /\ Fetched(i) # None
          /\ Fetched(i).t = "Response"
          /\ Fetched(i).status_code = 200
          /\ render_log[i].end = "skipped"
          /\ render_log[j].task

\* C20: whatever each render does (completes, raises a page error, raises
\* another exception, never completes), render_js eventually returns, no
\* error having left it, with every item handled once in the order of the
\* batch, every outcome with the index and the status the fetch gave it,
\* and the outcome of every render that was cancelled or that raised as the
\* fetch left it.
C20_RenderTerminates ==
    <>(/\ pc = "parse"
       /\ render_pc = "start" /\ render_task = "none"
       /\ Len(render_log) = N
       /\ Len(urls_and_responses) = N
       /\ \A i \in 1..N :
             /\ render_log[i].task = CreatesTask(Fetched(i))
             /\ urls_and_responses[i].index = i - 1
             /\ urls_and_responses[i].response = None <=> Fetched(i) = None
             /\ Fetched(i) # None =>
                   urls_and_responses[i].response.status_code = Fetched(i).status_code
             /\ render_log[i].end \in {"cancelled", "PageError", "Exception"} =>
                   urls_and_responses[i].response = Fetched(i))

\* C20 witness: render_js has returned from a batch of two pages, the
\* render of the first cancelled and the render of the second raising.
C20_Witness ==
    /\ pc = "parse"
    /\ Len(render_log) = 2
    /\ render_log[1].end = "cancelled"
    /\ render_log[2].end = "Exception"

\* The batches whose process is running
AliveBatches == {k \in 1..Len(bProcs) : bProcs[k].state = "running"}

\* C14: at most one batch process is alive at any time, and when the
\* process of a batch is started, the process of every earlier batch has
\* ended and its table has been collected.
C14_BatchesSequential ==
    /\ Cardinality(AliveBatches) <= 1
    /\ \A k \in 1..(Len(bProcs) - 1) :
          bProcs[k].state = "exited" /\ bProcs[k].collected

\* C14 witness: the second batch is running, the first having ended and
\* been collected.
C14_Witness ==
    /\ Len(bProcs) = 2
    /\ bProcs[2].state = "running"
    /\ bProcs[1].state = "exited" /\ bProcs[1].collected

\* The least number of batches of b rows that hold n rows
CeilDiv(n, b) == CHOOSE c \in 0..n : c * b >= n /\ (c = 0 \/ (c - 1) * b < n)

RECURSIVE ConcatRows(_)
ConcatRows(tables) ==
    IF tables = <<>> THEN <<>> ELSE Head(tables).rows \o ConcatRows(Tail(tables))

\* C15 (as claimed): for every input of N rows and every batch size B >= 1,
\* process_in_batches ends by returning, having run ceil(N/B) batches; the
\* batches are contiguous slices that together are the input rows in input
\* order, each of B rows but the last, which has 1 to B rows; the table
\* returned is the per-batch tables concatenated in batch order.
C15_BatchPartition ==
    bPc \in {"returned", "raised"} =>
        /\ bPc = "returned"
        /\ Len(bProcs) = CeilDiv(Len(bDf), batch_size)
        /\ ConcatRows([k \in 1..Len(bProcs) |-> bProcs[k].batch_df]) = bDf
        /\ \A k \in 1..Len(bProcs) :
              /\ bProcs[k].start_idx = (IF k = 1 THEN 0 ELSE bProcs[k - 1].end_idx)
              /\ Len(bProcs[k].batch_df.rows) = bProcs[k].end_idx - bProcs[k].start_idx
              /\ k < Len(bProcs) => Len(bProcs[k].batch_df.rows) = batch_size
              /\ Len(bProcs[k].batch_df.rows) \in 1..batch_size
        /\ cumulative_df.rows =
              ConcatRows([k \in 1..Len(bProcs) |-> bProcs[k].header_tags_df])

\* The number of characters of a text
RECURSIVE Chars(_)
Chars(s) ==
    IF s = <<>> THEN 0
    ELSE IF Len(s) = 1 THEN (IF s[1] > 0 THEN s[1] ELSE -s[1])
    ELSE Chars(SubSeq(s, 1, Len(s) \div 2)) + Chars(SubSeq(s, Len(s) \div 2 + 1, Len(s)))

\* The number of words of a text: the runs of characters that are not
\* blanks, each between two runs of blanks or an end of the text
WordCount(s) ==
    Cardinality({k \in 1..Len(s) : s[k] > 0 /\ (k = 1 \/ s[k - 1] < 0)})

\* C16: whatever the containers of the page, the text get_div_text returns
\* has at most 500 words and at most 5000 characters.
C16_Truncation ==
    dStage = "returned" =>
        /\ WordCount(dResult) <= 500
        /\ Chars(dResult) <= 5000

\* C16 witness: for a page whose first container is a single word of 50,000
\* characters, the text returned is 5000 characters of that word.
C16_Witness ==
    /\ dStage = "returned"
    /\ Len(dDivs) >= 1
    /\ dDivs[1] = <<50000>>
    /\ dResult = <<5000>>

\* The last_page stored for a key: that of its entry, or the 0 that the
\* next crawl finds when there is no entry
LastPage(cache, key) == IF key \in DOMAIN cache THEN cache[key] ELSE 0

CacheKeys == {CacheKey(crawl_id) : crawl_id \in {id \in CrawlIds : ValidCrawlId(id)}}

\* C17 (as claimed): no operation of the manager, crawl with any page
\* results or reset_cache, decreases the last_page stored for a key.
C17_CursorMonotonic ==
    [][\A key \in CacheKeys : LastPage(cCache', key) >= LastPage(cCache, key)]_vars

\* C17 (amended): no crawl call, whatever its pages return and whether or
\* not a search fails or raises, decreases the last_page stored for a key;
\* reset_cache discards every entry, so that every cursor is back at 0.
C17_CrawlMonotonic ==
    [][IF cCall'.op = "reset_cache"
       THEN \A key \in CacheKeys : LastPage(cCache', key) = 0
       ELSE \A key \in CacheKeys : LastPage(cCache', key) >= LastPage(cCache, key)]_vars

\* C17 witness: a crawl call that started at page 2 has had a failed search
\* for page 2 and records for page 3, and the cursor of its key is 3.
C17_Witness ==
    /\ cCall.op = "crawl"
    /\ ~cCall.raised
    /\ cCall.start_page = 2
    /\ cCall.results = <<"None", "records">>
    /\ cCache[CacheKey(cCall.crawl_id)] = 3

\* The columns of the table the feature extractor produces, the join key
\* apart, and the names the join gives them when the input has them too
ExtractorColumns ==
    {"url_path", "html_title", "meta_description", "root_page_title", "http_response",
     "h1", "h2", "h3", "h4", "h5", "h6", "div_text"}

RenamedColumns == {"url_path_right", "html_title_right", "div_text_right"}

\* C18 (as claimed): every column that the feature extractor produces is
\* dropped from the input table before the join, so that no such column is
\* on both sides of the join: the merged table has every feature column
\* under its own name with the extractor's value (or null), and none
\* renamed by the join.
C18_NoColumnCollision ==
    mStage = "merged" =>
        /\ \A k \in 1..Len(mDf) : DOMAIN DropColumns(mDf[k]) \cap ExtractorColumns = {}
        /\ \A k \in 1..Len(mOut) :
              /\ DOMAIN mOut[k] \cap RenamedColumns = {}
              /\ mOut[k].url_path \in {"p", Null}
              /\ mOut[k].div_text \in {"d", Null}
              /\ mOut[k].html_title \in Titles \cup {Null}

\* The last operation was a crawl call that passed the check of its crawl id.
CrawlCalled == cCall.op = "crawl" /\ ValidCrawlId(cCall.crawl_id)

\* C21 (as claimed): a crawl call that found the cursor at L and was asked
\* for n pages has searched exactly the pages L+1, ..., L+n, in increasing
\* order and each once.
C21_CursorResume ==
    CrawlCalled =>
        cCall.requested = [k \in 1..cCall.num_pages |-> cCall.last_page + k]

\* The position of the first search of a call that raised, or the number
\* of its pages when none did
SearchesMade(results) ==
    IF \E k \in 1..Len(results) : results[k] = "raises"
    THEN CHOOSE k \in 1..Len(results) :
             /\ results[k] = "raises"
             /\ \A j \in 1..(k - 1) : results[j] # "raises"
    ELSE Len(results)

\* C21 (amended): a crawl call that found the cursor at L and was asked for
\* n pages searches the pages L+1, L+2, ... in increasing order, each once,
\* and never a page numbered L or less; it searches all of L+1..L+n when it
\* returns, and stops after the first page whose search raised when it
\* does not.
C21_CursorResumeUntilRaise ==
    CrawlCalled =>
        /\ cCall.requested = [k \in 1..SearchesMade(cCall.results) |-> cCall.last_page + k]
        /\ \A k \in 1..Len(cCall.requested) : cCall.requested[k] > cCall.last_page
        /\ cCall.raised <=> \E k \in 1..Len(cCall.results) : cCall.results[k] = "raises"
        /\ ~cCall.raised => Len(cCall.requested) = cCall.num_pages

\* C21 witness: a call that found the cursor at 1 and was asked for two
\* pages has returned after searching the pages 2 and 3.
C21_Witness ==
    /\ CrawlCalled
    /\ cCall.last_page = 1
    /\ cCall.num_pages = 2
    /\ ~cCall.raised
    /\ cCall.requested = <<2, 3>>

\* C22 (as claimed): when reset_cache is never called, every page from 1 to
\* the last_page stored for a key has returned, in some crawl call, records
\* that went to the results.
C22_NoPageSkipped ==
    \A key \in DOMAIN cCache :
        \A page \in 1..cCache[key] : <<key, page>> \in cFound

\* C23 (as claimed): when the worker of a batch has ended, manager_list[0],
\* which collector_main returns, is a feature table that the worker stored
\* after it processed every url of the batch, with one record per url; it
\* is never the input table that collector_main put there.
C23_ResultProvenance ==
    Ended =>
        /\ manager_list[1].kind = "features"
        /\ manager_list[1] # [kind |-> "input", rows |-> urls]
        /\ Len(manager_list[1].rows) = N
        /\ Len(urls_and_headers) = N

=============================================================================
